---- MODULE Spec2Model ----
(***************************************************************************)
(* Model of the fluent HTTP request builder of langs/goreq/goreq.go        *)
(* (type SuperAgent): the chainable mutators, the content negotiation of   *)
(* Send, and the dispatch End/EndBytes with MakeRequest.                   *)
(*                                                                         *)
(* Go strings are TLA+ strings; a dynamically typed JSON value             *)
(* (interface{}) is a record [t, v] whose tag t names the Go dynamic type  *)
(* and whose v is the list of its string renderings.                       *)
(***************************************************************************)
EXTENDS Integers, Sequences, FiniteSets, TLC

VARIABLES Url, Method, Header, TargetType, ForceType, Data, SliceData,
          QueryData, BounceToRawString, RawString, Client, Transport,
          Cookies, Errors, BasicAuth, Debug, CurlCommand, logger,
          sent, wiped, ops, last, fault, pc

\* Beside the fields of SuperAgent: sent holds the contents passed to Send
\* since the last verb call and wiped the number of them passed before the
\* last call of ClearSuperAgent, ops counts the mutator calls since the last
\* verb call, last is what the last dispatch returned, fault the panic the
\* program ended in, and pc the place of the caller inside a dispatch
vars == <<Url, Method, Header, TargetType, ForceType, Data, SliceData,
          QueryData, BounceToRawString, RawString, Client, Transport,
          Cookies, Errors, BasicAuth, Debug, CurlCommand, logger,
          sent, wiped, ops, last, fault, pc>>

\* the fields ClearSuperAgent resets; the field FormData, which it resets
\* too, is written by New and ClearSuperAgent only and read nowhere, and is
\* no variable here
requestVars == <<Url, Method, Header, Data, SliceData, QueryData,
                 BounceToRawString, RawString, ForceType, TargetType,
                 Cookies, Errors>>

\* the fields that belong to the owning client
clientVars == <<Client, Transport, Debug, CurlCommand, logger>>

----------------------------------------------------------------------------
(* Bounds *)

\* mutator calls accepted between two verb calls
MaxOps == 2

\* redirects a server answers with during one dispatch
MaxRedirects == 1

----------------------------------------------------------------------------
(* HTTP methods *)

POST == "POST"
GET == "GET"
HEAD == "HEAD"
PUT == "PUT"
DELETE == "DELETE"
PATCH == "PATCH"
OPTIONS == "OPTIONS"

\* the aliases of Type and the content type each denotes
TypeNames == {"html", "json", "xml", "text", "urlencoded", "form", "form-data"}

Types ==
  [k \in TypeNames |->
     CASE k = "html" -> "text/html"
       [] k = "json" -> "application/json"
       [] k = "xml" -> "application/xml"
       [] k = "text" -> "text/plain"
       [] k = "urlencoded" -> "application/x-www-form-urlencoded"
       [] k = "form" -> "application/x-www-form-urlencoded"
       [] k = "form-data" -> "application/x-www-form-urlencoded"]

----------------------------------------------------------------------------
(* Dynamically typed values (Go interface{}) *)

Number(x) == [t |-> "json.Number", v |-> <<x>>]
String(x) == [t |-> "string", v |-> <<x>>]
Bool(x) == [t |-> "bool", v |-> <<x>>]
GoInt(x) == [t |-> "int", v |-> <<x>>]
StringSlice(xs) == [t |-> "[]string", v |-> xs]

\* make(map[string]interface{}), url.Values{}
EmptyMap == [k \in {} |-> String("")]

\* a merge that keeps the value a field already has
MergeKeepsOld(m, n) ==
  [k \in DOMAIN m \cup DOMAIN n |-> IF k \in DOMAIN m THEN m[k] ELSE n[k]]

\* the map m after m[k] = x for every k, x of n
Merge(m, n) ==
  [k \in DOMAIN m \cup DOMAIN n |-> IF k \in DOMAIN n THEN n[k] ELSE m[k]]

\* url.Values.Add
ValuesAdd(values, k, x) ==
  [j \in DOMAIN values \cup {k} |->
     IF j = k
       THEN (IF k \in DOMAIN values THEN Append(values[k], x) ELSE <<x>>)
       ELSE values[j]]

\* url.Values.Get
ValuesGet(values, k) ==
  IF k \in DOMAIN values /\ Len(values[k]) > 0 THEN values[k][1] ELSE ""

\* every map key of the model, in the byte order sort.Strings gives
KeyOrder == <<"7", "N", "Q", "[1,\"x\"]", "[]", "a", "b", "c", "fields", "n", "null", "q", "query",
              "size", "true", "x", "{\"a\":1}", "{\"a\":2,\"b\":\"y\"}", "{\"q\":1}", "{}">>

SortedKeys(m) == SelectSeq(KeyOrder, LAMBDA k : k \in DOMAIN m)

----------------------------------------------------------------------------
(* encoding/json and net/url as goreq.go calls them, on the inputs used *)

NoJson == [err |-> TRUE, kind |-> "Invalid", map |-> EmptyMap, slice |-> <<>>]

JsonMap(m) == [err |-> FALSE, kind |-> "Map", map |-> m, slice |-> <<>>]

JsonSlice(xs) == [err |-> FALSE, kind |-> "Slice", map |-> EmptyMap, slice |-> xs]

\* a bare number decodes to a json.Number, whose reflect.Kind is String
JsonScalar == [err |-> FALSE, kind |-> "String", map |-> EmptyMap, slice |-> <<>>]

\* true decodes to a bool
JsonBool == [err |-> FALSE, kind |-> "Bool", map |-> EmptyMap, slice |-> <<>>]

\* null decodes to a nil interface, whose reflect.Kind is Invalid
JsonNull == [err |-> FALSE, kind |-> "Invalid", map |-> EmptyMap, slice |-> <<>>]

\* json.NewDecoder(strings.NewReader(content)) with UseNumber, Decode(&val)
JsonDecode(content) ==
  CASE content = "{\"a\":1}" -> JsonMap([k \in {"a"} |-> Number("1")])
    [] content = "{\"a\":2,\"b\":\"y\"}" ->
         JsonMap([k \in {"a", "b"} |-> IF k = "a" THEN Number("2") ELSE String("y")])
    [] content = "{}" -> JsonMap(EmptyMap)
    [] content = "[1,\"x\"]" -> JsonSlice(<<Number("1"), String("x")>>)
    [] content = "[]" -> JsonSlice(<<>>)
    [] content = "7" -> JsonScalar
    [] content = "true" -> JsonBool
    [] content = "null" -> JsonNull
    [] OTHER -> NoJson

\* url.ParseQuery(content)
ParseQuery(content) ==
  CASE content = "%zz" -> [err |-> TRUE, values |-> EmptyMap]
    [] content = "query=tonkatsu" ->
         [err |-> FALSE, values |-> [k \in {"query"} |-> <<"tonkatsu">>]]
    [] content = "a=5" -> [err |-> FALSE, values |-> [k \in {"a"} |-> <<"5">>]]
    [] content = "size=50x50" ->
         [err |-> FALSE, values |-> [k \in {"size"} |-> <<"50x50">>]]
    [] content = "x=2" -> [err |-> FALSE, values |-> [k \in {"x"} |-> <<"2">>]]
    [] content = "x=1" -> [err |-> FALSE, values |-> [k \in {"x"} |-> <<"1">>]]
    [] content = "" -> [err |-> FALSE, values |-> EmptyMap]
    [] OTHER -> [err |-> FALSE, values |-> [k \in {content} |-> <<"">>]]

\* json.Unmarshal([]byte(content), &val) with val a map[string]string
JsonUnmarshalStrings(content) ==
  CASE content = "{\"q\":\"bicycle\"}" ->
         [err |-> FALSE, map |-> [k \in {"q"} |-> "bicycle"]]
    [] OTHER -> [err |-> TRUE, map |-> EmptyMap]

\* url.QueryEscape
QueryEscape(x) ==
  CASE x = "a;b" -> "a%3Bb"
    [] x = "{\"q\":1}" -> "%7B%22q%22%3A1%7D"
    [] x = "{\"a\":1}" -> "%7B%22a%22%3A1%7D"
    [] x = "{\"a\":2,\"b\":\"y\"}" -> "%7B%22a%22%3A2%2C%22b%22%3A%22y%22%7D"
    [] x = "{}" -> "%7B%7D"
    [] x = "[1,\"x\"]" -> "%5B1%2C%22x%22%5D"
    [] x = "[]" -> "%5B%5D"
    [] OTHER -> x

RECURSIVE EncodeKey(_, _, _)
\* the pairs k=x of one key, each preceded by & when the buffer is not empty
EncodeKey(buf, k, xs) ==
  IF xs = <<>> THEN buf
  ELSE EncodeKey((IF buf = "" THEN "" ELSE buf \o "&")
                   \o QueryEscape(k) \o "=" \o QueryEscape(Head(xs)),
                 k, Tail(xs))

RECURSIVE EncodeKeys(_, _, _)
EncodeKeys(buf, values, ks) ==
  IF ks = <<>> THEN buf
  ELSE EncodeKeys(EncodeKey(buf, Head(ks), values[Head(ks)]), values, Tail(ks))

\* url.Values.Encode: "URL encoded" form sorted by key
Encode(values) == EncodeKeys("", values, SortedKeys(values))

Quote(x) == "\"" \o x \o "\""

RECURSIVE JoinQuoted(_)
JoinQuoted(xs) ==
  IF xs = <<>> THEN ""
  ELSE Quote(Head(xs)) \o (IF Tail(xs) = <<>> THEN "" ELSE "," \o JoinQuoted(Tail(xs)))

\* json.Marshal of one value
MarshalValue(x) ==
  CASE x.t = "string" -> Quote(x.v[1])
    [] x.t = "[]string" -> "[" \o JoinQuoted(x.v) \o "]"
    [] OTHER -> x.v[1]

RECURSIVE MarshalFields(_, _)
MarshalFields(m, ks) ==
  IF ks = <<>> THEN ""
  ELSE Quote(Head(ks)) \o ":" \o MarshalValue(m[Head(ks)])
         \o (IF Tail(ks) = <<>> THEN "" ELSE "," \o MarshalFields(m, Tail(ks)))

\* json.Marshal(s.Data): one JSON object, keys sorted
MarshalMap(m) == "{" \o MarshalFields(m, SortedKeys(m)) \o "}"

RECURSIVE MarshalElems(_)
MarshalElems(xs) ==
  IF xs = <<>> THEN ""
  ELSE MarshalValue(Head(xs))
         \o (IF Tail(xs) = <<>> THEN "" ELSE "," \o MarshalElems(Tail(xs)))

\* json.Marshal(s.SliceData): one JSON array
MarshalSlice(xs) == "[" \o MarshalElems(xs) \o "]"

----------------------------------------------------------------------------
(* Values handed to Send and Query: a Go expression and its reflect.Kind *)

StringOf(x) == [kind |-> "String", v |-> x]

\* type Ver struct{ C string `json:"c"` }; type Page struct{ Q string };
\* type Size struct{ N int }; type Bad struct{ F func() }
StructOf(x) == [kind |-> "Struct", v |-> x]

SliceOf(x) == [kind |-> "Slice", v |-> x]

\* json.Marshal(content) of a struct, decoded again into a map by a decoder
\* with UseNumber
MarshalStruct(x) ==
  CASE x = "Ver{C:\"z\"}" -> [err |-> FALSE, map |-> [k \in {"c"} |-> String("z")]]
    [] x = "Page{Q:\"v\"}" -> [err |-> FALSE, map |-> [k \in {"Q"} |-> String("v")]]
    [] x = "Size{N:1}" -> [err |-> FALSE, map |-> [k \in {"N"} |-> Number("1")]]
    [] OTHER -> [err |-> TRUE, map |-> EmptyMap]

Float64(x) == [t |-> "float64", v |-> <<x>>]

\* the same fields decoded by json.Unmarshal: a number becomes a float64
Unmarshal(m) ==
  [k \in DOMAIN m |-> IF m[k].t = "json.Number" THEN Float64(m[k].v[1]) ELSE m[k]]

\* the elements v.Index(i).Interface() of a slice
SliceElems(x) ==
  CASE x = "[]int{9}" -> <<GoInt("9")>>
    [] x = "[]string{}" -> <<>>
    [] OTHER -> <<>>

\* strings.ToLower
ToLower(k) ==
  CASE k = "Q" -> "q"
    [] k = "N" -> "n"
    [] OTHER -> k

\* url.Parse as http.NewRequest and Proxy call it
ParseURL(u) ==
  CASE u = "http://h/p?x=1" -> [err |-> FALSE, base |-> "http://h/p", RawQuery |-> "x=1"]
    [] u = "http://h/p" -> [err |-> FALSE, base |-> "http://h/p", RawQuery |-> ""]
    [] u = "http://proxy:9999" -> [err |-> FALSE, base |-> "http://proxy:9999", RawQuery |-> ""]
    [] u = "" -> [err |-> FALSE, base |-> "", RawQuery |-> ""]
    [] OTHER -> [err |-> TRUE, base |-> "", RawQuery |-> ""]

----------------------------------------------------------------------------
(* Requests, responses and the outcome of a dispatch *)

NoAuth == [Username |-> "", Password |-> ""]

NilRequest ==
  [nil |-> TRUE, Method |-> "", URL |-> [base |-> "", RawQuery |-> ""],
   Header |-> EmptyMap, Body |-> [nil |-> TRUE, bytes |-> ""],
   BasicAuth |-> [ok |-> FALSE, Username |-> "", Password |-> ""],
   Cookies |-> <<>>]

NilResponse ==
  [nil |-> TRUE, StatusCode |-> 0, ContentLength |-> 0, Body |-> "", SetCookie |-> ""]

NilBytes == [nil |-> TRUE, bytes |-> ""]

\* answers of a server: one plain, one that sets a cookie; ContentLength is
\* the length the answer declares, Body the bytes the server means to send
Pong ==
  [nil |-> FALSE, StatusCode |-> 200, ContentLength |-> 4, Body |-> "pong",
   SetCookie |-> ""]

NotFound ==
  [nil |-> FALSE, StatusCode |-> 404, ContentLength |-> 0, Body |-> "",
   SetCookie |-> "sid"]

\* no dispatch has returned since the last mutator
NoCall ==
  [op |-> "none", resp |-> NilResponse, body |-> NilBytes, errs |-> <<>>,
   req |-> NilRequest, calls |-> 0, called |-> <<>>]

\* the dispatching caller is in no dispatch; at is the place of the caller
\* in EndBytes: "idle" outside it, "Do" while it waits in s.Client.Do(req),
\* "ReadAll" while it waits for the body of the response, in
\* httputil.DumpResponse(resp, true) if Debug is set and in
\* ioutil.ReadAll(resp.Body) if not; callback, req and
\* resp are the locals of EndBytes, calls counts the requests the client has
\* handed to the transport, dial tells what the Dial function installed by
\* Timeout returned when the transport called it to connect for the request
\* it holds now ("" if it has not called it), and redirect lists, one
\* for each redirect the server answered with, what the redirect policy of
\* the client returned
Idle ==
  [at |-> "idle", callback |-> <<>>, req |-> NilRequest, resp |-> NilResponse,
   calls |-> 0, dial |-> "", redirect |-> <<>>]

\* package variable DisableTransportSwap
DisableTransportSwap == FALSE

Init ==
  /\ Url = ""
  /\ Method = ""
  /\ Header = EmptyMap
  /\ TargetType = "json"
  /\ ForceType = ""
  /\ Data = EmptyMap
  /\ SliceData = <<>>
  /\ QueryData = EmptyMap
  /\ BounceToRawString = FALSE
  /\ RawString = ""
  /\ Client = [Jar |-> {}, Transport |-> "nil", CheckRedirect |-> "nil"]
  /\ Transport = [Dial |-> "nil", TLSClientConfig |-> "nil", Proxy |-> "nil"]
  /\ Cookies = <<>>
  /\ Errors = <<>>
  /\ BasicAuth = NoAuth
  /\ Debug = FALSE
  /\ CurlCommand = FALSE
  /\ logger = [out |-> "os.Stderr", prefix |-> "[gorequest]"]
  /\ sent = <<>>
  /\ wiped = 0
  /\ ops = 0
  /\ last = NoCall
  /\ fault = "none"
  /\ pc = Idle

\* a mutator call the chain may make: the program has not panicked, the
\* caller is not inside a dispatch and the chain since the last verb call is
\* within its bound
Chain ==
  /\ fault = "none"
  /\ pc.at = "idle"
  /\ ops < MaxOps
  /\ ops' = ops + 1
  /\ last' = NoCall
  /\ fault' = fault
  /\ pc' = pc

----------------------------------------------------------------------------
(* Verb calls *)

\* a reset that forgets the query parameters
ClearedKeepsQuery ==
  [Url |-> "", Method |-> "", Header |-> EmptyMap, Data |-> EmptyMap,
   SliceData |-> <<>>, QueryData |-> QueryData, BounceToRawString |-> FALSE,
   RawString |-> "", ForceType |-> "", TargetType |-> "json",
   Cookies |-> <<>>, Errors |-> <<>>]

\* the per-request fields as ClearSuperAgent leaves them
Cleared ==
  [Url |-> "", Method |-> "", Header |-> EmptyMap, Data |-> EmptyMap,
   SliceData |-> <<>>, QueryData |-> EmptyMap, BounceToRawString |-> FALSE,
   RawString |-> "", ForceType |-> "", TargetType |-> "json",
   Cookies |-> <<>>, Errors |-> <<>>]

\* a verb call that also installs a fresh transport
SetVerbFreshTransport(method, targetUrl) ==
  /\ fault = "none"
  /\ pc.at = "idle"
  /\ Method' = method
  /\ Url' = targetUrl
  /\ Header' = Cleared.Header
  /\ Data' = Cleared.Data
  /\ SliceData' = Cleared.SliceData
  /\ QueryData' = Cleared.QueryData
  /\ BounceToRawString' = Cleared.BounceToRawString
  /\ RawString' = Cleared.RawString
  /\ ForceType' = Cleared.ForceType
  /\ TargetType' = Cleared.TargetType
  /\ Cookies' = Cleared.Cookies
  /\ Errors' = <<>>
  /\ sent' = <<>>
  /\ wiped' = 0
  /\ ops' = 0
  /\ last' = NoCall
  /\ Transport' = [Dial |-> "nil", TLSClientConfig |-> "nil", Proxy |-> "nil"]
  /\ UNCHANGED <<BasicAuth, Client, Debug, CurlCommand, logger, fault, pc>>

\* s.ClearSuperAgent(); s.Method = method; s.Url = targetUrl; s.Errors = nil
SetVerb(method, targetUrl) ==
  /\ fault = "none"
  /\ pc.at = "idle"
  /\ Method' = method
  /\ Url' = targetUrl
  /\ Header' = Cleared.Header
  /\ Data' = Cleared.Data
  /\ SliceData' = Cleared.SliceData
  /\ QueryData' = Cleared.QueryData
  /\ BounceToRawString' = Cleared.BounceToRawString
  /\ RawString' = Cleared.RawString
  /\ ForceType' = Cleared.ForceType
  /\ TargetType' = Cleared.TargetType
  /\ Cookies' = Cleared.Cookies
  /\ Errors' = <<>>
  /\ sent' = <<>>
  /\ wiped' = 0
  /\ ops' = 0
  /\ last' = NoCall
  /\ UNCHANGED <<BasicAuth, clientVars, fault, pc>>

\* a call of ClearSuperAgent by itself: the per-request fields are reset,
\* also Url, Method and Errors; the credentials and the client stay
ClearSuperAgent ==
  /\ Chain
  /\ Url' = Cleared.Url
  /\ Method' = Cleared.Method
  /\ Header' = Cleared.Header
  /\ Data' = Cleared.Data
  /\ SliceData' = Cleared.SliceData
  /\ QueryData' = Cleared.QueryData
  /\ BounceToRawString' = Cleared.BounceToRawString
  /\ RawString' = Cleared.RawString
  /\ ForceType' = Cleared.ForceType
  /\ TargetType' = Cleared.TargetType
  /\ Cookies' = Cleared.Cookies
  /\ Errors' = Cleared.Errors
  /\ wiped' = Len(sent)
  /\ UNCHANGED <<sent, BasicAuth, clientVars>>

Get(targetUrl) == SetVerb(GET, targetUrl)

Post(targetUrl) == SetVerb(POST, targetUrl)

HeadMethod(targetUrl) == SetVerb(HEAD, targetUrl)

Put(targetUrl) == SetVerb(PUT, targetUrl)

Delete(targetUrl) == SetVerb(DELETE, targetUrl)

Patch(targetUrl) == SetVerb(PATCH, targetUrl)

Options(targetUrl) == SetVerb(OPTIONS, targetUrl)

CustomMethod(method, targetUrl) ==
  CASE method = POST -> Post(targetUrl)
    [] method = GET -> Get(targetUrl)
    [] method = HEAD -> HeadMethod(targetUrl)
    [] method = PUT -> Put(targetUrl)
    [] method = DELETE -> Delete(targetUrl)
    [] method = PATCH -> Patch(targetUrl)
    [] method = OPTIONS -> Options(targetUrl)
    [] OTHER -> SetVerb(method, targetUrl)

----------------------------------------------------------------------------
(* Mutators of the per-request state *)

bodyVars == <<Data, SliceData, BounceToRawString, RawString, TargetType, sent,
              wiped>>

\* a Set that also forgets the recorded errors
SetClearsErrors(param, value) ==
  /\ Chain
  /\ Header' = Merge(Header, [k \in {param} |-> value])
  /\ Errors' = <<>>
  /\ UNCHANGED <<Url, Method, ForceType, QueryData, Cookies, BasicAuth,
                 bodyVars, clientVars>>

Set(param, value) ==
  /\ Chain
  /\ Header' = Merge(Header, [k \in {param} |-> value])
  /\ UNCHANGED <<Url, Method, ForceType, QueryData, Cookies, Errors, BasicAuth,
                 bodyVars, clientVars>>

SetBasicAuth(username, password) ==
  /\ Chain
  /\ BasicAuth' = [Username |-> username, Password |-> password]
  /\ UNCHANGED <<Url, Method, Header, ForceType, QueryData, Cookies, Errors,
                 bodyVars, clientVars>>

AddCookie(c) ==
  /\ Chain
  /\ Cookies' = Append(Cookies, c)
  /\ UNCHANGED <<Url, Method, Header, ForceType, QueryData, Errors, BasicAuth,
                 bodyVars, clientVars>>

AddCookies(cookies) ==
  /\ Chain
  /\ Cookies' = Cookies \o cookies
  /\ UNCHANGED <<Url, Method, Header, ForceType, QueryData, Errors, BasicAuth,
                 bodyVars, clientVars>>

\* a Type that forgets the forced type when the name is not recognized
TypeClearsOnUnknown(typeStr) ==
  /\ Chain
  /\ IF typeStr \in DOMAIN Types
       THEN ForceType' = typeStr /\ Errors' = Errors
       ELSE /\ Errors' = Append(Errors, "Type func: incorrect type \"" \o typeStr \o "\"")
            /\ ForceType' = ""
  /\ UNCHANGED <<Url, Method, Header, QueryData, Cookies, BasicAuth,
                 bodyVars, clientVars>>

Type(typeStr) ==
  /\ Chain
  /\ IF typeStr \in DOMAIN Types
       THEN ForceType' = typeStr /\ Errors' = Errors
       ELSE /\ Errors' = Append(Errors, "Type func: incorrect type \"" \o typeStr \o "\"")
            /\ ForceType' = ForceType
  /\ UNCHANGED <<Url, Method, Header, QueryData, Cookies, BasicAuth,
                 bodyVars, clientVars>>

RECURSIVE AddAll(_, _, _)
\* values after Add(k, m[k]) for every key k of ks
AddAll(values, m, ks) ==
  IF ks = <<>> THEN values
  ELSE AddAll(ValuesAdd(values, Head(ks), m[Head(ks)]), m, Tail(ks))

\* the outcome of queryStruct: a panic, an appended error, or added pairs
queryStruct(content) ==
  LET decoded == MarshalStruct(content)
      marshal == [decoded EXCEPT !.map = Unmarshal(decoded.map)]
      strings == [k \in DOMAIN marshal.map |-> marshal.map[k].v[1]]
      lowered == [k \in {ToLower(j) : j \in DOMAIN strings} |->
                    strings[CHOOSE j \in DOMAIN strings : ToLower(j) = k]]
  IN  IF marshal.err
        THEN [panic |-> FALSE, err |-> "json: unsupported type", QueryData |-> QueryData]
      ELSE IF \E k \in DOMAIN marshal.map : marshal.map[k].t # "string"
        THEN [panic |-> TRUE, err |-> "", QueryData |-> QueryData]
      ELSE [panic |-> FALSE, err |-> "",
            QueryData |-> AddAll(QueryData, lowered, SortedKeys(lowered))]

\* the outcome of queryString
queryString(content) ==
  LET val == JsonUnmarshalStrings(content)
      queryVal == ParseQuery(content)
      first == [k \in DOMAIN queryVal.values |-> ValuesGet(queryVal.values, k)]
  IN  IF ~val.err
        THEN [panic |-> FALSE, err |-> "",
              QueryData |-> AddAll(QueryData, val.map, SortedKeys(val.map))]
      ELSE IF ~queryVal.err
        THEN [panic |-> FALSE, err |-> "",
              QueryData |-> AddAll(QueryData, first, SortedKeys(first))]
      ELSE [panic |-> FALSE, err |-> "invalid URL escape", QueryData |-> QueryData]

Query(content) ==
  LET out == CASE content.kind = "String" -> queryString(content.v)
               [] content.kind = "Struct" -> queryStruct(content.v)
               [] OTHER -> [panic |-> FALSE, err |-> "", QueryData |-> QueryData]
  IN  /\ fault = "none"
      /\ pc.at = "idle"
      /\ ops < MaxOps
      /\ ops' = ops + 1
      /\ last' = NoCall
      /\ fault' = IF out.panic THEN "interface conversion" ELSE fault
      /\ pc' = pc
      /\ QueryData' = out.QueryData
      /\ Errors' = IF out.err # "" THEN Append(Errors, out.err) ELSE Errors
      /\ UNCHANGED <<Url, Method, Header, ForceType, Cookies, BasicAuth,
                     bodyVars, clientVars>>

Param(key, value) ==
  /\ Chain
  /\ QueryData' = ValuesAdd(QueryData, key, value)
  /\ UNCHANGED <<Url, Method, Header, ForceType, Cookies, Errors, BasicAuth,
                 bodyVars, clientVars>>

----------------------------------------------------------------------------
(* Mutators of the client-level state *)

clientFrame == <<Url, Method, Header, ForceType, QueryData, Cookies, BasicAuth,
                 bodyVars>>

SetDebug(enable) ==
  /\ Chain
  /\ Debug' = enable
  /\ UNCHANGED <<clientFrame, Errors, Client, Transport, CurlCommand, logger>>

SetCurlCommand(enable) ==
  /\ Chain
  /\ CurlCommand' = enable
  /\ UNCHANGED <<clientFrame, Errors, Client, Transport, Debug, logger>>

SetLogger(l) ==
  /\ Chain
  /\ logger' = l
  /\ UNCHANGED <<clientFrame, Errors, Client, Transport, Debug, CurlCommand>>

\* installs a Dial closure that also appends a dial error to s.Errors
Timeout(timeout) ==
  /\ Chain
  /\ Transport' = [Transport EXCEPT !.Dial = timeout]
  /\ UNCHANGED <<clientFrame, Errors, Client, Debug, CurlCommand, logger>>

TLSClientConfig(config) ==
  /\ Chain
  /\ Transport' = [Transport EXCEPT !.TLSClientConfig = config]
  /\ UNCHANGED <<clientFrame, Errors, Client, Debug, CurlCommand, logger>>

Proxy(proxyUrl) ==
  /\ Chain
  /\ IF ParseURL(proxyUrl).err
       THEN Errors' = Append(Errors, "parse " \o proxyUrl) /\ Transport' = Transport
     ELSE IF proxyUrl = ""
       THEN Errors' = Errors /\ Transport' = [Transport EXCEPT !.Proxy = "nil"]
     ELSE Errors' = Errors /\ Transport' = [Transport EXCEPT !.Proxy = proxyUrl]
  /\ UNCHANGED <<clientFrame, Client, Debug, CurlCommand, logger>>

RedirectPolicy(policy) ==
  /\ Chain
  /\ Client' = [Client EXCEPT !.CheckRedirect = policy]
  /\ UNCHANGED <<clientFrame, Errors, Transport, Debug, CurlCommand, logger>>

----------------------------------------------------------------------------
(* Send: content negotiation *)

sendFrame == <<Url, Method, Header, ForceType, QueryData, Cookies, BasicAuth,
               clientVars, wiped>>

\* an append that puts the new elements first
SendSlicePrepends(content) == content \o SliceData

\* s.SliceData = append(s.SliceData, content...)
SendSlice(content) == SliceData \o content

\* the outcome of SendStruct: an appended error or merged fields
SendStruct(content) ==
  LET marshal == MarshalStruct(content)
  IN  IF marshal.err
        THEN [err |-> "json: unsupported type", Data |-> Data]
        ELSE [err |-> "", Data |-> Merge(Data, marshal.map)]

\* s.Data[k] after the form branch of SendString met key k with value x
FormValue(k, x) ==
  IF k \in DOMAIN Data
    THEN StringSlice(<<x>> \o (CASE Data[k].t = "[]string" -> Data[k].v
                                 [] Data[k].t = "string" -> Data[k].v
                                 [] OTHER -> <<>>))
    ELSE String(x)

\* a parse that hands a JSON value that is neither object nor array to the
\* form branch
ParseScalarAsForm(content) ==
  LET val == JsonDecode(content)
      formVal == ParseQuery(content)
      kept == [Data |-> Data, SliceData |-> SliceData, TargetType |-> TargetType,
               BounceToRawString |-> BounceToRawString]
  IN  IF ~val.err /\ val.kind = "Map"
        THEN [kept EXCEPT !.Data = Merge(Data, val.map)]
      ELSE IF ~val.err /\ val.kind = "Slice"
        THEN [kept EXCEPT !.SliceData = SendSlice(val.slice)]
      ELSE IF ~formVal.err
        THEN [kept EXCEPT
                !.Data = Merge(Data, [k \in DOMAIN formVal.values |->
                                        FormValue(k, ValuesGet(formVal.values, k))]),
                !.TargetType = "form"]
      ELSE [kept EXCEPT !.BounceToRawString = TRUE]

\* the branch of SendString taken while raw-string mode is not engaged:
\* JSON object, JSON array, other JSON value, form string, neither
Parse(content) ==
  LET val == JsonDecode(content)
      formVal == ParseQuery(content)
      kept == [Data |-> Data, SliceData |-> SliceData, TargetType |-> TargetType,
               BounceToRawString |-> BounceToRawString]
  IN  IF ~val.err
        THEN CASE val.kind = "Map" -> [kept EXCEPT !.Data = Merge(Data, val.map)]
               [] val.kind = "Slice" -> [kept EXCEPT !.SliceData = SendSlice(val.slice)]
               [] OTHER -> [kept EXCEPT !.BounceToRawString = TRUE]
      ELSE IF ~formVal.err
        THEN [kept EXCEPT
                !.Data = Merge(Data, [k \in DOMAIN formVal.values |->
                                        FormValue(k, ValuesGet(formVal.values, k))]),
                !.TargetType = "form"]
      ELSE [kept EXCEPT !.BounceToRawString = TRUE]

\* a dump made only once raw-string mode is engaged
RawDumpWhenBounced(content) ==
  IF BounceToRawString THEN RawString \o content ELSE RawString

\* s.RawString += content
RawDump(content) == RawString \o content

\* a SendString that parses whatever the raw-string flag says
SendStringAlwaysParses(content) ==
  [Data |-> Parse(content).Data, SliceData |-> Parse(content).SliceData,
   TargetType |-> Parse(content).TargetType,
   BounceToRawString |-> Parse(content).BounceToRawString,
   RawString |-> RawDump(content)]

\* the body fields after SendString(content)
SendString(content) ==
  LET parsed == IF ~BounceToRawString THEN Parse(content)
                ELSE [Data |-> Data, SliceData |-> SliceData,
                      TargetType |-> TargetType,
                      BounceToRawString |-> BounceToRawString]
  IN  [Data |-> parsed.Data, SliceData |-> parsed.SliceData,
       TargetType |-> parsed.TargetType,
       BounceToRawString |-> parsed.BounceToRawString,
       RawString |-> RawDump(content)]

Send(content) ==
  /\ Chain
  /\ sent' = Append(sent, content)
  /\ CASE content.kind = "String" ->
            LET out == SendString(content.v)
            IN  /\ Data' = out.Data
                /\ SliceData' = out.SliceData
                /\ TargetType' = out.TargetType
                /\ BounceToRawString' = out.BounceToRawString
                /\ RawString' = out.RawString
                /\ Errors' = Errors
       [] content.kind = "Struct" ->
            LET out == SendStruct(content.v)
            IN  /\ Data' = out.Data
                /\ Errors' = IF out.err # "" THEN Append(Errors, out.err) ELSE Errors
                /\ UNCHANGED <<SliceData, TargetType, BounceToRawString, RawString>>
       [] content.kind = "Slice" ->
            /\ SliceData' = SendSlice(SliceElems(content.v))
            /\ UNCHANGED <<Data, TargetType, BounceToRawString, RawString, Errors>>
       [] OTHER ->
            UNCHANGED <<Data, SliceData, TargetType, BounceToRawString, RawString,
                        Errors>>
  /\ UNCHANGED sendFrame

----------------------------------------------------------------------------
(* Dispatch: MakeRequest and End/EndBytes *)

\* http.NewRequest(method, url, body): fails when the URL does not parse
NewRequest(method, targetUrl, body) ==
  IF ParseURL(targetUrl).err
    THEN [err |-> "parse " \o targetUrl, req |-> NilRequest]
    ELSE [err |-> "",
          req |-> [nil |-> FALSE, Method |-> method,
                   URL |-> [base |-> ParseURL(targetUrl).base,
                            RawQuery |-> ParseURL(targetUrl).RawQuery],
                   Header |-> EmptyMap, Body |-> body,
                   BasicAuth |-> [ok |-> FALSE, Username |-> "", Password |-> ""],
                   Cookies |-> <<>>]]

\* a flattening without the case for a plain string
changeMapToURLValuesNoString(data) ==
  LET kept == {k \in DOMAIN data : data[k].t \in {"[]string", "json.Number"}}
  IN  [k \in kept |-> data[k].v]

\* url.Values of the flat fields of data: strings, string lists and numbers
changeMapToURLValues(data) ==
  LET kept == {k \in DOMAIN data : data[k].t \in {"string", "[]string", "json.Number"}}
  IN  [k \in kept |-> data[k].v]

\* an addition that replaces the values a key already has
AddValuesReplaces(q, values) ==
  [k \in DOMAIN q \cup DOMAIN values |->
     IF k \in DOMAIN values THEN values[k] ELSE q[k]]

\* q after q.Add(k, vv) for every value vv of every key k of values
AddValues(q, values) ==
  [k \in DOMAIN q \cup DOMAIN values |->
     (IF k \in DOMAIN q THEN q[k] ELSE <<>>)
       \o (IF k \in DOMAIN values THEN values[k] ELSE <<>>)]

\* a decoration that also sets the negotiated content type
DecorateNegotiated(req) ==
  [req EXCEPT
     !.Header = Merge([k \in {"Content-Type"} |-> Types[TargetType]],
                      Merge(req.Header, Header)),
     !.URL = [base |-> req.URL.base,
              RawQuery |-> Encode(AddValues(ParseQuery(req.URL.RawQuery).values,
                                            QueryData))],
     !.BasicAuth = IF BasicAuth # NoAuth
                     THEN [ok |-> TRUE, Username |-> BasicAuth.Username,
                           Password |-> BasicAuth.Password]
                     ELSE req.BasicAuth,
     !.Cookies = Cookies]

\* the part of MakeRequest after the request object exists: headers,
\* query string, basic auth, cookies
Decorate(req) ==
  [req EXCEPT
     !.Header = Merge(req.Header, Header),
     !.URL = [base |-> req.URL.base,
              RawQuery |-> Encode(AddValues(ParseQuery(req.URL.RawQuery).values,
                                            QueryData))],
     !.BasicAuth = IF BasicAuth # NoAuth
                     THEN [ok |-> TRUE, Username |-> BasicAuth.Username,
                           Password |-> BasicAuth.Password]
                     ELSE req.BasicAuth,
     !.Cookies = Cookies]

\* a reader that yields nothing
BytesEmpty(x) == [nil |-> FALSE, bytes |-> ""]

Bytes(x) == [nil |-> FALSE, bytes |-> x]

ContentType(req, value) == [req EXCEPT !.Header = [k \in {"Content-Type"} |-> value]]

\* a materialization without the check for an empty method: every request
\* is built as a bodyless one
MakeRequestNoMethodCheck(target, bounce) ==
  LET none == NewRequest(Method, Url, NilBytes)
  IN  IF none.err # ""
        THEN [panic |-> FALSE, err |-> none.err, req |-> NilRequest]
        ELSE [panic |-> FALSE, err |-> "", req |-> Decorate(none.req)]

\* MakeRequest with s.TargetType = target and s.BounceToRawString = bounce:
\* a request, an error, or a nil-pointer panic
MakeRequest(target, bounce) ==
  LET contentJson == IF bounce THEN RawString
                     ELSE IF Data # EmptyMap THEN MarshalMap(Data)
                     ELSE IF SliceData # <<>> THEN MarshalSlice(SliceData)
                     ELSE ""
      contentForm == IF bounce \/ SliceData # <<>> THEN RawString
                     ELSE Encode(changeMapToURLValues(Data))
      json == NewRequest(Method, Url, Bytes(contentJson))
      form == NewRequest(Method, Url, Bytes(contentForm))
      raw == NewRequest(Method, Url, Bytes(RawString))
      none == NewRequest(Method, Url, NilBytes)
      Done(r) == [panic |-> FALSE, err |-> "", req |-> Decorate(r)]
      Fail(e) == [panic |-> FALSE, err |-> e, req |-> NilRequest]
      Panic == [panic |-> TRUE, err |-> "", req |-> NilRequest]
  IN  CASE Method \in {POST, PUT, PATCH} ->
             (CASE target = "json" ->
                     IF json.err # "" THEN Fail(json.err)
                     ELSE Done(ContentType(json.req, "application/json"))
                [] target = "form" ->
                     IF form.err # "" THEN Fail(form.err)
                     ELSE Done(ContentType(form.req, "application/x-www-form-urlencoded"))
                [] target = "text" ->
                     IF raw.err # "" THEN Panic
                     ELSE Done(ContentType(raw.req, "text/plain"))
                [] target = "xml" ->
                     IF raw.err # "" THEN Panic
                     ELSE Done(ContentType(raw.req, "application/xml"))
                [] OTHER -> Panic)
        [] Method = "" -> Fail("No method specified")
        [] OTHER -> IF none.err # "" THEN Fail(none.err) ELSE Done(none.req)

\* the values s.TargetType can have after the content-type resolution of
\* EndBytes; the range over the map Types visits its keys in any order and
\* the last matching alias stays
ResolveTargetType ==
  IF ForceType \in {"json", "form", "xml", "text"}
    THEN {ForceType}
    ELSE LET ct == IF "Content-Type" \in DOMAIN Header THEN Header["Content-Type"] ELSE ""
             matching == {k \in DOMAIN Types : Types[k] = ct}
         IN  IF matching = {} THEN {TargetType} ELSE matching

\* what s.Client.Do(req) and the ioutil.ReadAll(resp.Body) after it may come
\* to: a response or an error; dial tells that the error arose in the
\* transport's Dial function, read is what ReadAll returned and readErr the
\* error it returned with it
Answer(r) == [err |-> "", dial |-> FALSE, resp |-> r, read |-> r.Body, readErr |-> ""]

\* the connection broke after the bytes got of the body of r had arrived
ShortRead(r, got) ==
  [err |-> "", dial |-> FALSE, resp |-> r, read |-> got, readErr |-> "unexpected EOF"]

BrokenPipe ==
  [err |-> "EOF", dial |-> FALSE, resp |-> NilResponse, read |-> "", readErr |-> ""]

DialFailure ==
  [err |-> "dial tcp: i/o timeout", dial |-> TRUE, resp |-> NilResponse,
   read |-> "", readErr |-> ""]

\* the client gave up because the redirect policy returned an error
RedirectRefused ==
  [err |-> "policy: stopped", dial |-> FALSE, resp |-> NilResponse,
   read |-> "", readErr |-> ""]

\* a check that lets a single recorded error through
HasErrorsBeyondFirst == Len(Errors) > 1

\* len(s.Errors) != 0: dispatch returns the errors at once
HasErrors == Len(Errors) # 0

\* a dispatch without the mixed-shape check
MixedNever == FALSE

\* len(s.Data) != 0 && len(s.SliceData) != 0: map and slice got mixed
Mixed == Data # EmptyMap /\ SliceData # <<>>

\* a dispatch that invokes its callback a second time
CallbackTwice(callback, body, errs) ==
  IF Len(callback) # 0
    THEN <<[fn |-> callback[1], body |-> body, errs |-> errs],
           [fn |-> callback[1], body |-> body, errs |-> errs]>>
    ELSE <<>>

\* the invocations of the variadic callback a successful dispatch makes:
\* callback[0](&respCallback, body, s.Errors) if a callback was passed
Callback(callback, body, errs) ==
  IF Len(callback) # 0
    THEN <<[fn |-> callback[1], body |-> body, errs |-> errs]>>
    ELSE <<>>

endFrame == <<Url, Method, Header, ForceType, Data, SliceData, QueryData,
              RawString, Transport, Cookies, BasicAuth, Debug, CurlCommand,
              sent, wiped, ops>>

\* EndBytes from its call to the point where it returns errors or enters
\* s.Client.Do(req)
EndBytes(callback) ==
  /\ fault = "none"
  /\ pc.at = "idle"
  /\ IF HasErrors
       THEN /\ last' = [op |-> "End", resp |-> NilResponse, body |-> NilBytes,
                        errs |-> Errors, req |-> NilRequest, calls |-> 0,
                        called |-> <<>>]
            /\ UNCHANGED <<endFrame, TargetType, BounceToRawString, Errors,
                           Client, logger, fault, pc>>
       ELSE \E target \in ResolveTargetType :
              LET bounce == BounceToRawString \/ Mixed
                  made == MakeRequest(target, bounce)
                  swapped == IF DisableTransportSwap THEN Client.Transport
                             ELSE "s.Transport"
              IN  /\ TargetType' = target
                  /\ BounceToRawString' = bounce
                  /\ UNCHANGED endFrame
                  /\ IF made.panic
                       THEN /\ fault' = "nil pointer dereference"
                            /\ last' = [NoCall EXCEPT !.op = "panic"]
                            /\ UNCHANGED <<Errors, Client, logger, pc>>
                     ELSE IF made.err # ""
                       THEN /\ Errors' = Append(Errors, made.err)
                            /\ last' = [op |-> "End", resp |-> NilResponse,
                                        body |-> NilBytes, errs |-> Errors',
                                        req |-> NilRequest, calls |-> 0,
                                        called |-> <<>>]
                            /\ UNCHANGED <<Client, logger, fault, pc>>
                     ELSE /\ Client' = [Client EXCEPT !.Transport = swapped]
                          /\ logger' = [logger EXCEPT !.prefix =
                                          IF CurlCommand THEN "[curl] "
                                          ELSE IF Debug THEN "[http] " ELSE @]
                          /\ last' = NoCall
                          /\ pc' = [Idle EXCEPT !.at = "Do", !.callback = callback,
                                                !.req = made.req, !.calls = 1]
                          /\ UNCHANGED <<Errors, fault>>

\* End hands EndBytes one callback that wraps callback[0], if one was passed,
\* and converts the body to a string
End(callback) ==
  EndBytes(IF Len(callback) > 0 THEN <<callback[1]>> ELSE <<>>)

\* what no step made while the caller waits inside EndBytes writes
flightFrame == <<Url, Method, Header, TargetType, ForceType, Data, SliceData,
                 QueryData, BounceToRawString, RawString, Transport, Cookies,
                 BasicAuth, Debug, CurlCommand, logger, sent, wiped, ops>>

\* the Dial function installed by Timeout, called by the transport while
\* the caller waits in s.Client.Do(req), for each connection it opens: for
\* the request EndBytes made and for the request of each redirect the client
\* followed; err is the error of net.DialTimeout, "" if it connected
Dial(err) ==
  /\ pc.at = "Do"
  /\ pc.dial = ""
  /\ \A i \in DOMAIN pc.redirect : pc.redirect[i] = "follow"
  /\ Client.Transport = "s.Transport"
  /\ Transport.Dial # "nil"
  /\ Errors' = IF err # "" THEN Append(Errors, err) ELSE Errors
  /\ pc' = [pc EXCEPT !.dial = IF err # "" THEN err ELSE "conn"]
  /\ UNCHANGED <<flightFrame, Client, last, fault>>

\* the server may answer the request in flight with a redirect: the
\* connection stands, the redirects so far were followed and fewer than
\* MaxRedirects were answered
Redirected ==
  /\ pc.at = "Do"
  /\ pc.dial \in {"", "conn"}
  /\ Len(pc.redirect) < MaxRedirects
  /\ \A i \in DOMAIN pc.redirect : pc.redirect[i] = "follow"

\* the CheckRedirect function installed by RedirectPolicy, called by the
\* client while the caller waits in s.Client.Do(req), when the server
\* answered with a redirect: it hands the requests to the policy and returns
\* what the policy returns, "follow" for nil; on nil the client hands the
\* request for the new location to the transport, which has yet to connect
\* for it
CheckRedirect(verdict) ==
  /\ Redirected
  /\ Client.CheckRedirect # "nil"
  /\ pc' = [pc EXCEPT !.redirect = Append(@, verdict),
                      !.calls = IF verdict = "follow" THEN @ + 1 ELSE @,
                      !.dial = IF verdict = "follow" THEN "" ELSE @]
  /\ UNCHANGED <<flightFrame, Errors, Client, last, fault>>

\* the client New made has no CheckRedirect function: until RedirectPolicy
\* installs one, s.Client.Do(req) follows a redirect the server answers
\* with and hands the request for the new location to the transport, which
\* has yet to connect for it
FollowRedirect ==
  /\ Redirected
  /\ Client.CheckRedirect = "nil"
  /\ pc' = [pc EXCEPT !.redirect = Append(@, "follow"), !.calls = @ + 1,
                      !.dial = ""]
  /\ UNCHANGED <<flightFrame, Errors, Client, last, fault>>

\* a dispatch that hands a failed request to the transport a second time
DoRetries(do) ==
  /\ pc.at = "Do"
  /\ pc.dial \notin {"", "conn"} => (do.dial /\ do.err = pc.dial)
  /\ (do.dial /\ Client.Transport = "s.Transport" /\ Transport.Dial # "nil") =>
       pc.dial = do.err
  /\ (\E i \in DOMAIN pc.redirect : pc.redirect[i] # "follow") <=>
       (do = RedirectRefused)
  /\ IF do.err # "" /\ pc.calls < MaxRedirects + 2
       THEN /\ pc' = [pc EXCEPT !.calls = @ + 1]
            /\ UNCHANGED <<Errors, last, Client>>
     ELSE IF do.err # ""
       THEN /\ Errors' = Append(Errors, "Do: " \o do.err)
            /\ last' = [op |-> "End", resp |-> NilResponse, body |-> NilBytes,
                        errs |-> Errors', req |-> pc.req, calls |-> pc.calls,
                        called |-> <<>>]
            /\ pc' = Idle
            /\ UNCHANGED Client
       ELSE /\ Client' = [Client EXCEPT !.Jar = IF do.resp.SetCookie # ""
                                                  THEN @ \cup {do.resp.SetCookie}
                                                  ELSE @]
            /\ pc' = [pc EXCEPT !.at = "ReadAll", !.resp = do.resp]
            /\ UNCHANGED <<Errors, last>>
  /\ UNCHANGED <<flightFrame, fault>>

\* s.Client.Do(req) returns: with an error EndBytes appends it and returns
\* the errors, with a response it goes on to read the body
Do(do) ==
  /\ pc.at = "Do"
  /\ pc.dial \notin {"", "conn"} => (do.dial /\ do.err = pc.dial)
  /\ (do.dial /\ Client.Transport = "s.Transport" /\ Transport.Dial # "nil") =>
       pc.dial = do.err
  /\ (\E i \in DOMAIN pc.redirect : pc.redirect[i] # "follow") <=>
       (do = RedirectRefused)
  /\ IF do.err # ""
       THEN /\ Errors' = Append(Errors, "Do: " \o do.err)
            /\ last' = [op |-> "End", resp |-> NilResponse, body |-> NilBytes,
                        errs |-> Errors', req |-> pc.req, calls |-> pc.calls,
                        called |-> <<>>]
            /\ pc' = Idle
            /\ UNCHANGED Client
       ELSE /\ Client' = [Client EXCEPT !.Jar = IF do.resp.SetCookie # ""
                                                  THEN @ \cup {do.resp.SetCookie}
                                                  ELSE @]
            /\ pc' = [pc EXCEPT !.at = "ReadAll", !.resp = do.resp]
            /\ UNCHANGED <<Errors, last>>
  /\ UNCHANGED <<flightFrame, fault>>

\* what resp.Body can hold after httputil.DumpResponse(resp, true), which
\* reads the body from the connection: a copy of the body if the read
\* succeeded; if it failed, the drained body, or no body at all with a
\* standard library whose drainBody returns nil with the error
DumpResponse(do) ==
  IF do.readErr = ""
    THEN {[nil |-> FALSE, bytes |-> do.read]}
    ELSE {[nil |-> FALSE, bytes |-> ""], NilBytes}

\* the body of the response has arrived or the connection broke: with Debug
\* the body was read by DumpResponse, whose error is logged, and
\* ioutil.ReadAll(resp.Body) reads what that left, without Debug it reads
\* what arrived; its error is dropped, and it panics on a nil body; EndBytes
\* calls the callback and returns
ReadAll(do) ==
  /\ pc.at = "ReadAll"
  /\ do.err = ""
  /\ do.resp = pc.resp
  /\ \E left \in (IF Debug THEN DumpResponse(do)
                   ELSE {[nil |-> FALSE, bytes |-> do.read]}) :
       IF left.nil
         THEN /\ fault' = "nil pointer dereference"
              /\ last' = [NoCall EXCEPT !.op = "panic"]
         ELSE /\ fault' = fault
              /\ last' = [op |-> "End",
                          resp |-> [pc.resp EXCEPT !.Body = left.bytes],
                          body |-> Bytes(left.bytes),
                          errs |-> <<>>,
                          req |-> pc.req, calls |-> pc.calls,
                          called |-> Callback(pc.callback, Bytes(left.bytes),
                                              Errors)]
  /\ pc' = Idle
  /\ UNCHANGED <<flightFrame, Errors, Client>>

----------------------------------------------------------------------------
(* Inputs *)

Urls == {"http://h/p?x=1", ":bad"}

SendStrings ==
  {"{\"a\":1}", "{\"a\":2,\"b\":\"y\"}", "{}", "[1,\"x\"]", "[]",
   "query=tonkatsu", "a=5", "7", "true", "null", "%zz"}

SendContents ==
  {StringOf(x) : x \in SendStrings}
    \cup {StructOf("Ver{C:\"z\"}"), StructOf("Bad{F:nil}"),
          SliceOf("[]int{9}"), [kind |-> "Int", v |-> "42"]}

----------------------------------------------------------------------------
(* Specifications *)

\* the body of a request: every shape of Send, with and without a
\* Content-Type header or a forced type, dispatched on body and bodyless verbs
NextBody ==
  \/ \E targetUrl \in Urls :
       \/ Post(targetUrl)
       \/ Put(targetUrl)
       \/ Patch(targetUrl)
       \/ Get(targetUrl)
  \/ \E content \in SendContents : Send(content)
  \/ \E value \in {"text/plain", "application/x-www-form-urlencoded"} :
       Set("Content-Type", value)
  \/ \E typeStr \in {"form", "text", "bogus"} : Type(typeStr)
  \/ ClearSuperAgent
  \/ End(<<>>)
  \/ \E do \in {Answer(Pong), BrokenPipe} : Do(do) \/ ReadAll(do)

SpecBody == Init /\ [][NextBody]_vars

\* every verb call
Verb ==
  \E targetUrl \in Urls :
    \/ Get(targetUrl)
    \/ Post(targetUrl)
    \/ HeadMethod(targetUrl)
    \/ Put(targetUrl)
    \/ Delete(targetUrl)
    \/ Patch(targetUrl)
    \/ Options(targetUrl)
    \/ \E method \in {POST, "PURGE", ""} : CustomMethod(method, targetUrl)

\* one request from verb call to dispatch: every mutator of the per-request
\* state and every source of a recorded error
Next ==
  \/ Verb
  \/ \E content \in {StringOf("{\"a\":1}"), StringOf("[1,\"x\"]"), StringOf("%zz"),
                     StructOf("Bad{F:nil}")} : Send(content)
  \/ Set("Content-Type", "text/plain")
  \/ Set("Accept", "*/*")
  \/ \E typeStr \in {"form", "bogus"} : Type(typeStr)
  \/ \E content \in {StringOf("size=50x50"), StringOf("%zz")} : Query(content)
  \/ Param("fields", "a;b")
  \/ AddCookie("c1")
  \/ AddCookies(<<"c2", "c3">>)
  \/ SetBasicAuth("myuser", "mypass")
  \/ Proxy("%zz")
  \/ ClearSuperAgent
  \/ End(<<>>)
  \/ \E do \in {Answer(Pong), BrokenPipe} : Do(do) \/ ReadAll(do)

Spec == Init /\ [][Next]_vars

\* every verb call after a chain that fills each per-request field: headers,
\* structured, list and raw body, query, cookies, forced type and errors,
\* with credentials set and requests exchanged in between
NextVerb ==
  \/ Verb
  \/ \E content \in {StringOf("{\"a\":1}"), StringOf("[1,\"x\"]"), StringOf("%zz")} :
       Send(content)
  \/ Set("Content-Type", "text/plain")
  \/ \E typeStr \in {"form", "bogus"} : Type(typeStr)
  \/ Query(StringOf("size=50x50"))
  \/ AddCookie("c1")
  \/ SetBasicAuth("myuser", "mypass")
  \/ ClearSuperAgent
  \/ End(<<>>)
  \/ \E do \in {Answer(Pong), BrokenPipe} : Do(do) \/ ReadAll(do)

SpecVerb == Init /\ [][NextVerb]_vars

\* the owning client across requests: transport, redirect policy, cookie
\* jar, debug settings and credentials
NextClient ==
  \/ \E targetUrl \in {"http://h/p"} : Get(targetUrl) \/ Post(targetUrl)
  \/ SetBasicAuth("myuser", "mypass")
  \/ SetDebug(TRUE)
  \/ SetCurlCommand(TRUE)
  \/ SetLogger([out |-> "os.Stdout", prefix |-> ""])
  \/ Timeout("5s")
  \/ TLSClientConfig("InsecureSkipVerify")
  \/ \E proxyUrl \in {"http://proxy:9999", "", "%zz"} : Proxy(proxyUrl)
  \/ RedirectPolicy("policy")
  \/ ClearSuperAgent
  \/ End(<<>>)
  \/ \E err \in {"", DialFailure.err} : Dial(err)
  \/ \E verdict \in {"follow", RedirectRefused.err} : CheckRedirect(verdict)
  \/ FollowRedirect
  \/ \E do \in {Answer(NotFound), DialFailure, RedirectRefused,
                 ShortRead(Pong, "po")} : Do(do) \/ ReadAll(do)

SpecClient == Init /\ [][NextClient]_vars

\* content-type resolution: every alias of Type, the Content-Type headers
\* that name a recognized content type, and a Send that sets the target type
NextType ==
  \/ \E targetUrl \in {"http://h/p"} : Post(targetUrl) \/ Get(targetUrl)
  \/ \E typeStr \in TypeNames \cup {"bogus"} : Type(typeStr)
  \/ \E value \in {"text/html", "application/x-www-form-urlencoded", "application/xml"} :
       Set("Content-Type", value)
  \/ Send(StringOf("a=5"))
  \/ ClearSuperAgent
  \/ End(<<>>)
  \/ Do(Answer(Pong))
  \/ ReadAll(Answer(Pong))

SpecType == Init /\ [][NextType]_vars

\* the values handed to Query: JSON-object string, URL-encoded strings, an
\* unparsable string, structs with a string field, a number field and a
\* field that cannot be serialized, and a value that is neither
QueryContents ==
  {StringOf("{\"q\":\"bicycle\"}"), StringOf("size=50x50"), StringOf("x=2"),
   StringOf("%zz"), StructOf("Page{Q:\"v\"}"), StructOf("Size{N:1}"),
   StructOf("Bad{F:nil}"), [kind |-> "Int", v |-> "42"]}

\* the query string: Query and Param on URLs with and without a query
NextQuery ==
  \/ \E targetUrl \in {"http://h/p?x=1", "http://h/p"} :
       Get(targetUrl) \/ Post(targetUrl)
  \/ \E content \in QueryContents : Query(content)
  \/ \E value \in {"a;b", "3"} : Param("fields", value) \/ Param("x", value)
  \/ ClearSuperAgent
  \/ End(<<>>)
  \/ Do(Answer(Pong))
  \/ ReadAll(Answer(Pong))

SpecQuery == Init /\ [][NextQuery]_vars

\* the body on every verb: text, xml and form forced, and content sent as
\* object string, array string, unparsable string, struct and slice
NextVerbBody ==
  \/ \E targetUrl \in {"http://h/p"} :
       \/ Post(targetUrl)
       \/ Put(targetUrl)
       \/ Patch(targetUrl)
       \/ Get(targetUrl)
       \/ HeadMethod(targetUrl)
       \/ Delete(targetUrl)
       \/ Options(targetUrl)
       \/ CustomMethod("PURGE", targetUrl)
  \/ \E typeStr \in {"text", "xml", "form"} : Type(typeStr)
  \/ \E content \in {StringOf("{\"a\":1}"), StringOf("[1,\"x\"]"), StringOf("%zz"),
                     StructOf("Ver{C:\"z\"}"), SliceOf("[]int{9}")} : Send(content)
  \/ ClearSuperAgent
  \/ End(<<>>)
  \/ Do(Answer(Pong))
  \/ ReadAll(Answer(Pong))

SpecVerbBody == Init /\ [][NextVerbBody]_vars

\* the callbacks handed to End: none, or the function printBody
Callbacks == {<<>>, <<"printBody">>}

\* the outcomes of the exchange: an answer, a broken connection, a
\* redirect the policy refused, and a connection that breaks while the body
\* is read
Exchanges == {Answer(Pong), BrokenPipe, RedirectRefused, ShortRead(Pong, "po")}

\* dispatch after dispatch: with and without a method, on URLs that do and
\* do not parse, with and without recorded errors, callbacks and a redirect
\* policy, against a server that may answer with redirects
NextDispatch ==
  \/ \E targetUrl \in Urls :
       \/ Get(targetUrl)
       \/ Post(targetUrl)
       \/ CustomMethod("", targetUrl)
  \/ Type("bogus")
  \/ Set("Accept", "*/*")
  \/ RedirectPolicy("policy")
  \/ ClearSuperAgent
  \/ \E callback \in Callbacks : End(callback)
  \/ \E verdict \in {"follow", RedirectRefused.err} : CheckRedirect(verdict)
  \/ FollowRedirect
  \/ \E do \in Exchanges : Do(do) \/ ReadAll(do)

SpecDispatch == Init /\ [][NextDispatch]_vars

----------------------------------------------------------------------------
(* Properties *)

\* the step is a verb call: only a verb call restarts the chain
VerbStep == pc.at = "idle" /\ pc'.at = "idle" /\ ops' = 0 /\ last'.op = "none"

\* the step is a dispatch that returns
EndStep == last'.op = "End"

\* the step is the call of a dispatch: it returns errors at once, enters the
\* exchange or ends in the nil-request fault
CallStep ==
  pc.at = "idle" /\ (EndStep \/ pc'.at = "Do" \/ fault' = "nil pointer dereference")

\* the step belongs to a dispatch: its call, a step made while the caller
\* waits for the exchange, or its return
DispatchStep == CallStep \/ pc.at # "idle"

\* the contents sent since the last verb call or ClearSuperAgent call
SentSinceReset == SubSeq(sent, wiped + 1, Len(sent))

\* the last call was a dispatch that handed a request to the transport
Dispatched == last.op = "End" /\ last.calls >= 1

BodyVerb == Method \in {POST, PUT, PATCH}

NoForcedType == ForceType = ""

NoContentTypeHeader == "Content-Type" \notin DOMAIN Header

RECURSIVE Concatenation(_)
\* the strings among the contents cs, concatenated in order
Concatenation(cs) ==
  IF cs = <<>> THEN ""
  ELSE (IF Head(cs).kind = "String" THEN Head(cs).v ELSE "") \o Concatenation(Tail(cs))

\* C1: a dispatch invoked with a non-empty error list builds no request,
\* makes no exchange, changes no field of the builder and returns at once
\* no response, no body and exactly the error list as it stood
C1_ErrorsShortCircuit ==
  [][(CallStep /\ Len(Errors) # 0) =>
       /\ EndStep
       /\ pc' = Idle
       /\ last'.resp = NilResponse
       /\ last'.body = NilBytes
       /\ last'.req = NilRequest
       /\ last'.calls = 0
       /\ last'.errs = Errors
       /\ Errors' = Errors
       /\ UNCHANGED <<Client, TargetType, BounceToRawString>>]_vars

\* two configuration errors were recorded and a dispatch returned them
C1_Witness ==
  /\ Method = POST
  /\ ~ParseURL(Url).err
  /\ last.op = "End"
  /\ last.calls = 0
  /\ last.errs = <<"Type func: incorrect type \"bogus\"", "invalid URL escape">>
  /\ last.resp = NilResponse

\* the methods a verb call can set
VerbMethods == {GET, POST, HEAD, PUT, DELETE, PATCH, OPTIONS, "PURGE", ""}

\* the per-request state is blank
Blank ==
  /\ Header = EmptyMap
  /\ Data = EmptyMap
  /\ SliceData = <<>>
  /\ RawString = ""
  /\ BounceToRawString = FALSE
  /\ QueryData = EmptyMap
  /\ Cookies = <<>>
  /\ ForceType = ""
  /\ Errors = <<>>
  /\ TargetType = "json"

\* C2: a verb call leaves headers, structured body, list body, raw body,
\* raw-string flag, query, cookies, forced type and errors empty, the target
\* content type json, and method and url equal to its arguments
C2_VerbResets ==
  [][/\ VerbStep => Blank'
     /\ \A method \in VerbMethods, targetUrl \in Urls :
          CustomMethod(method, targetUrl) =>
            (Blank' /\ Method' = method /\ Url' = targetUrl)]_vars

\* a verb call made after credentials were set and a request was exchanged
C2_Witness ==
  /\ ops = 0
  /\ last.op = "none"
  /\ Method = "PURGE"
  /\ Url = ":bad"
  /\ BasicAuth.Username = "myuser"
  /\ Client.Transport = "s.Transport"
  /\ Blank

\* C3: a dispatch that follows a verb call with no mutator in between sends
\* a request without basic-auth credentials
C3_NoCredentialsCarriedOver ==
  (Dispatched /\ ops = 0) => ~last.req.BasicAuth.ok

\* C4: a verb call leaves the client, its cookie jar, the transport
\* settings and the debug, curl and logger settings as they were
C4_VerbKeepsClient ==
  [][VerbStep => UNCHANGED <<Client, Transport, Debug, CurlCommand, logger>>]_vars

\* a verb call made on a client whose every setting was changed before
C4_Witness ==
  /\ ops = 0
  /\ last.op = "none"
  /\ Method = GET
  /\ Transport = [Dial |-> "5s", TLSClientConfig |-> "InsecureSkipVerify",
                  Proxy |-> "http://proxy:9999"]
  /\ Client = [Jar |-> {"sid"}, Transport |-> "s.Transport",
               CheckRedirect |-> "policy"]
  /\ Debug
  /\ CurlCommand
  /\ logger.out = "os.Stdout"

\* the request body the last dispatch handed to the transport
SentBody == last.req.Body

\* a string that decodes as a JSON object
ObjectString(c) ==
  c.kind = "String" /\ ~JsonDecode(c.v).err /\ JsonDecode(c.v).kind = "Map"

\* every Send since the last verb call passed a JSON-object string
OnlyObjects == sent # <<>> /\ \A i \in 1..Len(sent) : ObjectString(sent[i])

Fragment(i) == JsonDecode(sent[i].v).map

\* the field-wise merge of the fragments sent: each field has the value of
\* the last fragment that names it
MergedFragments ==
  [k \in UNION {DOMAIN Fragment(i) : i \in 1..Len(sent)} |->
     LET i == CHOOSE i \in 1..Len(sent) :
                /\ k \in DOMAIN Fragment(i)
                /\ \A j \in (i+1)..Len(sent) : k \notin DOMAIN Fragment(j)
     IN  Fragment(i)[k]]

\* C5 as claimed: after Sends of JSON-object strings only, the structured
\* body is the field-wise merge of the fragments and the dispatched body is
\* that mapping serialized as one JSON object
C5_ObjectsMergeAndSerialize ==
  (BodyVerb /\ NoForcedType /\ NoContentTypeHeader /\ OnlyObjects) =>
    /\ Data = MergedFragments
    /\ Dispatched => SentBody = Bytes(MarshalMap(MergedFragments))

\* C5 amended: the dispatched body is the serialized object when the merge
\* has at least one field, and empty when it has none
C5_ObjectsMerge ==
  (BodyVerb /\ NoForcedType /\ NoContentTypeHeader /\ OnlyObjects) =>
    /\ Data = MergedFragments
    /\ Dispatched =>
         SentBody = IF MergedFragments = EmptyMap THEN Bytes("")
                    ELSE Bytes(MarshalMap(MergedFragments))

\* two fragments, the second overwriting a field of the first, dispatched
C5_Witness ==
  /\ Dispatched
  /\ Method = POST
  /\ sent = <<StringOf("{\"a\":1}"), StringOf("{\"a\":2,\"b\":\"y\"}")>>
  /\ SentBody = Bytes("{\"a\":2,\"b\":\"y\"}")

\* a JSON-array string or a slice
ArrayContent(c) ==
  \/ c.kind = "String" /\ ~JsonDecode(c.v).err /\ JsonDecode(c.v).kind = "Slice"
  \/ c.kind = "Slice"

OnlyArrays == sent # <<>> /\ \A i \in 1..Len(sent) : ArrayContent(sent[i])

Elements(c) == IF c.kind = "String" THEN JsonDecode(c.v).slice ELSE SliceElems(c.v)

RECURSIVE Flattened(_)
\* the elements of the arrays cs in call order
Flattened(cs) == IF cs = <<>> THEN <<>> ELSE Elements(Head(cs)) \o Flattened(Tail(cs))

\* C6 as claimed: after Sends of JSON-array strings and slices only, the
\* list body is the concatenation of all elements in call order and the
\* dispatched body is that list serialized as one JSON array
C6_ArraysConcatenateAndSerialize ==
  (BodyVerb /\ NoForcedType /\ NoContentTypeHeader /\ OnlyArrays) =>
    /\ SliceData = Flattened(sent)
    /\ Dispatched => SentBody = Bytes(MarshalSlice(Flattened(sent)))

\* C6 amended: the dispatched body is the serialized array when the list
\* has at least one element, and empty when it has none
C6_ArraysConcatenate ==
  (BodyVerb /\ NoForcedType /\ NoContentTypeHeader /\ OnlyArrays) =>
    /\ SliceData = Flattened(sent)
    /\ Dispatched =>
         SentBody = IF Flattened(sent) = <<>> THEN Bytes("")
                    ELSE Bytes(MarshalSlice(Flattened(sent)))

\* an array string and a slice, dispatched as one array
C6_Witness ==
  /\ Dispatched
  /\ Method = PUT
  /\ sent = <<StringOf("[1,\"x\"]"), SliceOf("[]int{9}")>>
  /\ SentBody = Bytes("[1,\"x\",9]")

\* C7: a dispatch that finds both the structured and the list body
\* non-empty engages raw-string mode, and on POST/PUT/PATCH with effective
\* type json or form sends the concatenation of the strings passed to Send
C7_MixedFallsBackToRaw ==
  /\ [][(CallStep /\ Errors = <<>> /\ Data # EmptyMap /\ SliceData # <<>>) =>
          BounceToRawString']_vars
  /\ []((/\ Dispatched
         /\ BodyVerb
         /\ Data # EmptyMap
         /\ SliceData # <<>>
         /\ TargetType \in {"json", "form"}) =>
          (BounceToRawString /\ SentBody = Bytes(Concatenation(sent))))

\* an object and an array were sent and the raw concatenation went out
C7_Witness ==
  /\ Dispatched
  /\ Method = POST
  /\ TargetType = "json"
  /\ sent = <<StringOf("{\"a\":1}"), StringOf("[1,\"x\"]")>>
  /\ SentBody = Bytes("{\"a\":1}[1,\"x\"]")

\* the step is a Send of a string
StringSendStep ==
  /\ Len(sent') = Len(sent) + 1
  /\ sent'[Len(sent')].kind = "String"

\* C8 as claimed: raw-string mode stays engaged through every step until
\* the next verb call, and while it is engaged a Send of a string only
\* appends the string to the raw body
C8_RawModeUntilVerbCall ==
  [][(BounceToRawString /\ ~VerbStep) =>
       /\ BounceToRawString'
       /\ StringSendStep =>
            /\ Data' = Data
            /\ SliceData' = SliceData
            /\ TargetType' = TargetType
            /\ RawString' = RawString \o sent'[Len(sent')].v]_vars

\* C8 amended: raw-string mode stays engaged until the next verb call or
\* ClearSuperAgent call, each of which disengages it, and while it is
\* engaged a Send of a string only appends the string to the raw body
C8_RawModeOneWay ==
  /\ [][(BounceToRawString /\ ~VerbStep /\ ~ClearSuperAgent) =>
          /\ BounceToRawString'
          /\ StringSendStep =>
               /\ Data' = Data
               /\ SliceData' = SliceData
               /\ TargetType' = TargetType
               /\ RawString' = RawString \o sent'[Len(sent')].v]_vars
  /\ [][(VerbStep \/ ClearSuperAgent) => ~BounceToRawString']_vars

\* an unparsable string engaged raw mode, then a JSON object was sent
C8_Witness ==
  /\ BounceToRawString
  /\ sent = <<StringOf("%zz"), StringOf("{\"a\":1}")>>
  /\ Data = EmptyMap
  /\ RawString = "%zz{\"a\":1}"

\* C9 as claimed: the raw body is the concatenation, in call order, of
\* every string passed to Send since the last verb call
C9_RawBodyIsConcatenation == RawString = Concatenation(sent)

\* C9 amended: the raw body is the concatenation, in call order, of every
\* string passed to Send since the last verb call or ClearSuperAgent call
C9_RawBodySinceReset == RawString = Concatenation(SentSinceReset)

\* a parsed array string followed by an unparsable string
C9_Witness ==
  /\ sent = <<StringOf("[1,\"x\"]"), StringOf("%zz")>>
  /\ RawString = "[1,\"x\"]%zz"
  /\ SliceData # <<>>

\* a string that fails JSON decoding and parses as a URL-encoded form
FormString(c) ==
  c.kind = "String" /\ JsonDecode(c.v).err /\ ~ParseQuery(c.v).err

\* the flat fields of the structured body as form pairs
FormPairs ==
  [k \in {j \in DOMAIN Data : Data[j].t \in {"string", "[]string", "json.Number"}} |->
     Data[k].v]

\* C10 as claimed: once a form string took the form branch of Send (here as
\* the first Send after the verb call), a POST/PUT/PATCH dispatch with no
\* forced type and no Content-Type header has effective type form and sends
\* the URL-encoded pairs of the structured body
C10_FormSendDispatchesPairs ==
  (/\ Dispatched
   /\ BodyVerb
   /\ NoForcedType
   /\ NoContentTypeHeader
   /\ sent # <<>>
   /\ FormString(sent[1])) =>
    (TargetType = "form" /\ SentBody = Bytes(Encode(FormPairs)))

\* C10 amended: a form string sent while raw-string mode is not engaged sets
\* the target type to form, which stays until the next verb call or
\* ClearSuperAgent call while no type is forced and no Content-Type header is set; the dispatch then sends
\* the URL-encoded pairs of the structured body if raw-string mode is not
\* engaged and the list body is empty, and the raw body otherwise
C10_FormSend ==
  /\ [][(~BounceToRawString /\ StringSendStep /\ FormString(sent'[Len(sent')])) =>
          TargetType' = "form"]_vars
  /\ [][(TargetType = "form" /\ ~VerbStep /\ ~ClearSuperAgent
            /\ NoForcedType' /\ NoContentTypeHeader') =>
          TargetType' = "form"]_vars
  /\ []((Dispatched /\ BodyVerb /\ NoForcedType /\ NoContentTypeHeader
           /\ TargetType = "form") =>
          /\ last.req.Header["Content-Type"] = "application/x-www-form-urlencoded"
          /\ SentBody = IF BounceToRawString \/ SliceData # <<>>
                          THEN Bytes(Concatenation(sent))
                          ELSE Bytes(Encode(FormPairs)))
  /\ []((Dispatched /\ BodyVerb /\ NoForcedType /\ NoContentTypeHeader
           /\ sent = <<StringOf("query=tonkatsu")>>) =>
          (TargetType = "form" /\ SentBody = Bytes("query=tonkatsu")))

\* the single input query=tonkatsu was sent and dispatched
C10_Witness ==
  /\ Dispatched
  /\ Method = POST
  /\ NoForcedType
  /\ NoContentTypeHeader
  /\ sent = <<StringOf("query=tonkatsu")>>
  /\ TargetType = "form"
  /\ SentBody = Bytes("query=tonkatsu")

\* the string of the Send the step makes
SentString == sent'[Len(sent')].v

\* the step is a Send of a form string made while raw-string mode is not
\* engaged: the form branch of SendString runs
FormSendStep ==
  ~BounceToRawString /\ StringSendStep /\ FormString(sent'[Len(sent')])

\* the string renderings of a value of the structured body
Renderings(x) == x.v

\* C11: a form-string Send that supplies a key the structured body already
\* has stores under it the list of strings made of the new value followed by
\* all prior values in their order, whatever the prior value was
C11_FormSendKeepsPriorValues ==
  [][FormSendStep =>
       \A k \in DOMAIN ParseQuery(SentString).values \cap DOMAIN Data :
         Data'[k] = StringSlice(<<ValuesGet(ParseQuery(SentString).values, k)>>
                                  \o Renderings(Data[k]))]_vars

\* a JSON value that is neither an object nor an array
ScalarString(c) ==
  c.kind = "String" /\ ~JsonDecode(c.v).err /\ JsonDecode(c.v).kind \notin {"Map", "Slice"}

\* the step is a Send of a bare JSON scalar made while raw-string mode is
\* not engaged
ScalarSendStep ==
  ~BounceToRawString /\ StringSendStep /\ ScalarString(sent'[Len(sent')])

\* C12 as claimed: a bare JSON scalar that parses as a URL-encoded form is
\* merged into the structured body and sets the target type to form, and
\* raw-string mode is not engaged
C12_ScalarFallsBackToForm ==
  [][(ScalarSendStep /\ ~ParseQuery(SentString).err) =>
       /\ TargetType' = "form"
       /\ ~BounceToRawString'
       /\ DOMAIN ParseQuery(SentString).values \subseteq DOMAIN Data']_vars

\* C12 amended: a bare JSON scalar engages raw-string mode at once and no
\* form parse is made, so structured body, list body and target type stay;
\* a string that fails JSON parsing takes the form branch if it parses as a
\* form, and engages raw-string mode only if it does not
C12_ScalarEngagesRawMode ==
  /\ [][ScalarSendStep =>
          /\ BounceToRawString'
          /\ UNCHANGED <<Data, SliceData, TargetType>>
          /\ RawString' = RawString \o SentString]_vars
  /\ [][(~BounceToRawString /\ StringSendStep /\ JsonDecode(SentString).err) =>
          IF ParseQuery(SentString).err
            THEN BounceToRawString' /\ UNCHANGED <<Data, SliceData, TargetType>>
            ELSE /\ ~BounceToRawString'
                 /\ TargetType' = "form"
                 /\ DOMAIN ParseQuery(SentString).values \subseteq DOMAIN Data']_vars

\* the number 7, which also parses as a form with the key 7, was sent first
\* and raw-string mode is engaged with nothing merged
C12_Witness ==
  /\ sent = <<StringOf("7")>>
  /\ ~ParseQuery("7").err
  /\ BounceToRawString
  /\ Data = EmptyMap
  /\ TargetType = "json"
  /\ RawString = "7"

\* the error list after one append to errs
OneAppended(errs, after) ==
  Len(after) = Len(errs) + 1 /\ SubSeq(after, 1, Len(errs)) = errs

\* C13: Type with a name that is no alias appends exactly one error and
\* leaves the forced type and every other field as they were; with an alias
\* it sets the forced type to that name and appends no error
C13_TypeSetsOrRecords ==
  [][\A typeStr \in TypeNames \cup {"bogus"} :
       Type(typeStr) =>
         /\ IF typeStr \in TypeNames
              THEN ForceType' = typeStr /\ Errors' = Errors
              ELSE ForceType' = ForceType /\ OneAppended(Errors, Errors')
         /\ UNCHANGED <<Url, Method, Header, TargetType, Data, SliceData,
                        QueryData, BounceToRawString, RawString, Cookies,
                        BasicAuth, Client, Transport, Debug, CurlCommand,
                        logger>>]_vars

\* a type was forced and then an unknown name was rejected
C13_Witness ==
  /\ ForceType = "form-data"
  /\ Errors = <<"Type func: incorrect type \"bogus\"">>
  /\ ops = 2
  /\ TargetType = "json"

\* C14: whenever a forced type is set, the effective content type at
\* dispatch is the one the forced alias denotes, whatever the Content-Type
\* header and the target type set by earlier Sends
C14_ForcedTypeWins ==
  (Dispatched /\ ForceType # "") => Types[TargetType] = Types[ForceType]

\* C15: the target content type is one of json, form, text, xml in every
\* state, also after the content-type resolution of a dispatch
C15_TargetTypeInEnum == TargetType \in {"json", "form", "text", "xml"}

\* xs is the beginning of ys
Prefix(xs, ys) == Len(xs) <= Len(ys) /\ SubSeq(ys, 1, Len(xs)) = xs

\* the values a multimap holds under a key
ValuesOf(values, k) == IF k \in DOMAIN values THEN values[k] ELSE <<>>

\* the pairs each value handed to Query supplies
QueryPairs(content) ==
  CASE content = StringOf("{\"q\":\"bicycle\"}") -> <<"q", "bicycle">>
    [] content = StringOf("size=50x50") -> <<"size", "50x50">>
    [] content = StringOf("x=2") -> <<"x", "2">>
    [] content = StructOf("Page{Q:\"v\"}") -> <<"q", "v">>

\* the pairs embedded in the URL of the verb call
UrlPairs == ParseQuery(ParseURL(Url).RawQuery).values

\* the pairs of the URL followed, key by key, by the pairs added since
AllPairs ==
  [k \in DOMAIN UrlPairs \cup DOMAIN QueryData |->
     ValuesOf(UrlPairs, k) \o ValuesOf(QueryData, k)]

\* C16: a Query or Param call adds its pair after the values its key
\* already has, and no step but a verb call or a ClearSuperAgent call removes
\* or overwrites a pair added since the last verb call; the query string
\* of the dispatched URL holds the pairs of the verb call's URL and, after
\* them, every pair added, in insertion order
C16_QueryAccumulates ==
  /\ [][(~VerbStep /\ ~ClearSuperAgent) =>
          \A k \in DOMAIN QueryData :
            k \in DOMAIN QueryData' /\ Prefix(QueryData[k], QueryData'[k])]_vars
  /\ [][\A key \in {"fields", "x"}, value \in {"a;b", "3"} :
          Param(key, value) =>
            QueryData'[key] = Append(ValuesOf(QueryData, key), value)]_vars
  /\ [][\A content \in {c \in QueryContents :
                          c.v \in {"{\"q\":\"bicycle\"}", "size=50x50", "x=2",
                                    "Page{Q:\"v\"}"}} :
          Query(content) =>
            QueryData'[QueryPairs(content)[1]] =
              Append(ValuesOf(QueryData, QueryPairs(content)[1]),
                     QueryPairs(content)[2])]_vars
  /\ [](Dispatched => last.req.URL.RawQuery = Encode(AllPairs))

\* a URL with the pair x=1, then Query("x=2") and Param("fields", "a;b"),
\* dispatched
C16_Witness ==
  /\ Dispatched
  /\ Url = "http://h/p?x=1"
  /\ QueryData = [k \in {"x", "fields"} |-> IF k = "x" THEN <<"2">> ELSE <<"a;b">>]
  /\ last.req.URL.RawQuery = "fields=a%3Bb&x=1&x=2"

\* C17: Query with a struct that has a field whose serialized value is not
\* a string never raises a fault
C17_QueryStructNeverPanics == fault # "interface conversion"

\* C18: every dispatch returns either a response with its fully read body
\* and no errors, or no response, no body and a non-empty error list
C18_ResponseOrErrors ==
  last.op = "End" =>
    \/ /\ ~last.resp.nil
       /\ ~last.body.nil
       /\ Len(last.body.bytes) = last.resp.ContentLength
       /\ last.errs = <<>>
    \/ /\ last.resp = NilResponse
       /\ last.body = NilBytes
       /\ last.errs # <<>>

\* the redirects among vs that the client followed
Followed(vs) == Cardinality({i \in DOMAIN vs : vs[i] = "follow"})

\* C19 as claimed: a dispatch hands exactly one request to the transport
\* when the error list is empty and the request can be built, and none
\* otherwise
C19_OneRequestPerDispatch ==
  /\ [][CallStep =>
          (pc'.at = "Do") = (/\ Errors = <<>>
                             /\ Method # ""
                             /\ ~ParseURL(Url).err
                             /\ fault' = "none")]_vars
  /\ [][EndStep => last'.calls = IF pc.at = "idle" THEN 0 ELSE 1]_vars
  /\ [](last.calls \in {0, 1})

\* C19 amended: a dispatch calls the client once when the error list is
\* empty and the request can be built, and not at all otherwise; the client
\* hands the transport that request and one more for each redirect it
\* follows, and no request after an exchange failed or the policy refused
C19_OneExchangePerDispatch ==
  /\ [][CallStep =>
          (pc'.at = "Do") = (/\ Errors = <<>>
                             /\ Method # ""
                             /\ ~ParseURL(Url).err
                             /\ fault' = "none")]_vars
  /\ [][(CallStep /\ pc'.at = "Do") => (pc'.calls = 1 /\ pc'.redirect = <<>>)]_vars
  /\ [][(pc.at = "Do" /\ pc'.at = "Do") =>
          pc'.calls - pc.calls = Followed(pc'.redirect) - Followed(pc.redirect)]_vars
  /\ [][(pc.at = "Do" /\ pc'.at # "Do") =>
          (pc'.at = "ReadAll" /\ pc'.calls = pc.calls /\ pc'.redirect = pc.redirect)
            \/ (EndStep /\ last'.errs # <<>> /\ pc' = Idle)]_vars
  /\ [][pc.at = "ReadAll" => pc' = Idle]_vars
  /\ [][EndStep =>
          last'.calls = IF pc.at = "idle" THEN 0 ELSE 1 + Followed(pc.redirect)]_vars
  /\ [](pc.at # "idle" => pc.calls = 1 + Followed(pc.redirect))

\* the server answered with a redirect, the client followed it and the
\* dispatch returned the answer to the second request
C19_Witness ==
  /\ last.op = "End"
  /\ last.calls = 2
  /\ last.errs = <<>>
  /\ ~last.resp.nil
  /\ ~last.req.nil

\* C20: while the caller waits for the exchange no step writes a field of
\* the builder, in particular the error list: the functions the transport
\* and the client call back leave the builder as it is
C20_OnlyCallerWritesErrors ==
  [][(pc.at = "Do" /\ pc'.at = "Do") =>
       UNCHANGED <<Errors, Url, Method, Header, TargetType, ForceType, Data,
                   SliceData, QueryData, BounceToRawString, RawString, Client,
                   Transport, Cookies, BasicAuth, Debug, CurlCommand, logger>>]_vars

\* C21: a POST/PUT/PATCH dispatch with effective type text or xml sends the
\* raw body, the concatenation of the strings passed to Send, whatever the
\* structured body, the list body and the raw-string flag hold; content
\* sent as a struct or slice is not in it
C21_TextAndXmlSendRawBody ==
  (Dispatched /\ BodyVerb /\ TargetType \in {"text", "xml"}) =>
    /\ SentBody = [nil |-> FALSE, bytes |-> Concatenation(sent)]
    /\ last.req.Header["Content-Type"] =
         (IF TargetType = "text" THEN "text/plain" ELSE "application/xml")
    /\ (\A i \in 1..Len(sent) : sent[i].kind # "String") => SentBody.bytes = ""

\* a struct only was sent as xml: it is in the structured body and the
\* dispatched body is empty
C21_Witness ==
  /\ Dispatched
  /\ Method = PATCH
  /\ TargetType = "xml"
  /\ sent = <<StructOf("Ver{C:\"z\"}")>>
  /\ Data # EmptyMap
  /\ SentBody = [nil |-> FALSE, bytes |-> ""]

\* C22: a dispatch on a verb other than POST, PUT and PATCH sends a request
\* with no body and with the caller's headers only, so no negotiated
\* Content-Type, whatever was sent and forced; the dispatch leaves the sent
\* content in the builder
C22_NoBodyOnOtherVerbs ==
  /\ []((Dispatched /\ ~BodyVerb) =>
          /\ SentBody = NilBytes
          /\ last.req.Header = Header
          /\ NoContentTypeHeader => "Content-Type" \notin DOMAIN last.req.Header)
  /\ [][DispatchStep => UNCHANGED <<Data, SliceData, RawString, sent>>]_vars

\* a custom verb dispatched after a forced type and a Send
C22_Witness ==
  /\ Dispatched
  /\ Method = "PURGE"
  /\ ForceType = "form"
  /\ Data = [k \in {"a"} |-> Number("1")]
  /\ RawString = "{\"a\":1}"
  /\ SentBody = NilBytes
  /\ last.req.Header = EmptyMap

\* C23: the materialization of a POST/PUT/PATCH request never reaches its
\* header step without a request object
C23_NoNilRequestFault == fault # "nil pointer dereference"

\* C24 as claimed: a dispatch on a builder whose method is empty makes no
\* exchange and returns no response, no body and an error list whose only
\* entry is the error No method specified
C24_EmptyMethodReturnsNoMethod ==
  (last.op = "End" /\ Method = "") =>
    /\ last.calls = 0
    /\ last.resp = NilResponse
    /\ last.body = NilBytes
    /\ last.errs = <<"No method specified">>

\* C24 amended: such a dispatch makes no exchange and returns no response
\* and no body; its error list is the one entry No method specified if no
\* error was recorded before, and the recorded errors alone otherwise
C24_EmptyMethod ==
  [][(EndStep /\ Method = "") =>
       /\ last'.calls = 0
       /\ last'.resp = NilResponse
       /\ last'.body = NilBytes
       /\ last'.called = <<>>
       /\ last'.errs = IF Errors = <<>> THEN <<"No method specified">> ELSE Errors]_vars

\* a dispatch after CustomMethod with an empty method
C24_Witness ==
  /\ last.op = "End"
  /\ Method = ""
  /\ Url = "http://h/p?x=1"
  /\ ops = 0
  /\ last.calls = 0
  /\ last.errs = <<"No method specified">>

\* C25 as claimed: the error of a failed dispatch stays in the error list
\* of the builder, the list only grows until the next verb call, a dispatch
\* that finds it non-empty makes no exchange and returns a list that begins
\* with it, and a verb call empties it
C25_FailedDispatchSticks ==
  /\ [][(EndStep /\ last'.errs # <<>>) => Errors' = last'.errs]_vars
  /\ [][~VerbStep => Prefix(Errors, Errors')]_vars
  /\ [][(CallStep /\ Errors # <<>>) =>
          (last'.calls = 0 /\ Prefix(Errors, last'.errs))]_vars
  /\ [][VerbStep => Errors' = <<>>]_vars

\* C25 amended: the list only grows until the next verb call or
\* ClearSuperAgent call, each of which empties it; ClearSuperAgent empties
\* the method with it, so that until a verb call every dispatch finds
\* recorded errors or no method, makes no exchange and returns the recorded
\* errors, or the one error No method specified if none is recorded
C25_FailedDispatchSticksUntilReset ==
  /\ [][(EndStep /\ last'.errs # <<>>) => Errors' = last'.errs]_vars
  /\ [][(~VerbStep /\ ~ClearSuperAgent) => Prefix(Errors, Errors')]_vars
  /\ [][(CallStep /\ Errors # <<>>) =>
          (pc' = Idle /\ last'.calls = 0 /\ last'.errs = Errors)]_vars
  /\ [][(VerbStep \/ ClearSuperAgent) => Errors' = <<>>]_vars
  /\ [][ClearSuperAgent => Method' = ""]_vars
  /\ [][((Errors # <<>> \/ Method = "") /\ ~VerbStep) =>
          (Errors' # <<>> \/ Method' = "")]_vars
  /\ [][(CallStep /\ (Errors # <<>> \/ Method = "")) =>
          /\ pc' = Idle
          /\ last'.calls = 0
          /\ last'.errs = IF Errors # <<>> THEN Errors
                          ELSE <<"No method specified">>]_vars

\* an exchange failed, and a later dispatch returned its error without an
\* exchange of its own
C25_Witness ==
  /\ last.op = "End"
  /\ last.calls = 0
  /\ Method = GET
  /\ last.errs = <<"Do: EOF">>
  /\ Errors = <<"Do: EOF">>

\* C26: a dispatch invokes the callback it was given once, after the body
\* was read, with the body it returns and no errors, when it returns a
\* response, and does not invoke it when it returns errors
C26_CallbackOnceOnSuccess ==
  /\ [][\A callback \in Callbacks :
          (End(callback) /\ pc'.at = "Do") => pc'.callback = callback]_vars
  /\ [][pc.at # "idle" => (pc'.callback = pc.callback \/ pc' = Idle)]_vars
  /\ [][(EndStep /\ last'.errs = <<>>) => pc.at = "ReadAll"]_vars
  /\ [][EndStep =>
          last'.called =
            IF last'.errs = <<>> /\ pc.callback # <<>>
              THEN <<[fn |-> pc.callback[1], body |-> last'.body, errs |-> <<>>]>>
              ELSE <<>>]_vars

\* the callback printBody was invoked once with the body pong
C26_Witness ==
  /\ last.op = "End"
  /\ last.errs = <<>>
  /\ last.body = [nil |-> FALSE, bytes |-> "pong"]
  /\ last.called = <<[fn |-> "printBody", body |-> last.body, errs |-> <<>>]>>

====
